---- MODULE Spec2Model ----
(***************************************************************************)
(* Model of the CFaR engine (src/sim/monteCarlo.ts, two revisions) and of   *)
(* the POST /api/cfar/run handler (src/server/src/index.ts).                *)
(*                                                                          *)
(* Numbers.  A JavaScript number is modelled as an exact rational           *)
(* [n |-> numerator, d |-> denominator] in lowest terms with d > 0; NaN is  *)
(* the record with d = 0 and an absent (undefined) optional number the      *)
(* record with d = -1.  Arithmetic is exact but for two IEEE-754 roundings: *)
(* min + 1e-9 in buildHist (Absorbs), and a sum whose one term is too small *)
(* to move the other (AddAbsorbs); the values used keep every other result  *)
(* exactly representable.                                                   *)
(***************************************************************************)
EXTENDS Integers, Sequences, FiniteSets, TLC

(* ------------------------------ numbers -------------------------------- *)

Abs(x) == IF x < 0 THEN -x ELSE x

RECURSIVE GCD(_, _)
GCD(a, b) == IF b = 0 THEN a ELSE GCD(b, a % b)

NaN == [n |-> 0, d |-> 0]
Undef == [n |-> 0, d |-> -1]

IsNaN(a) == a.d = 0
IsUndef(a) == a.d = -1
IsNum(a) == a.d > 0

R(n, d) ==
  LET g == GCD(Abs(n), d)
  IN  [n |-> n \div g, d |-> d \div g]

Zero == R(0, 1)
One == R(1, 1)

LCM(a, b) == (a \div GCD(a, b)) * b

\* 2^27 and 2^28: the doubles next to one of magnitude 2^27 or more are at
\* least 2^-26 away, so that adding a term of magnitude 2^-28 or less rounds
\* back to it.
LargeFrom == 134217728
SmallBelow == 268435456

AddAbsorbs(a, b) ==
  /\ Abs(a.n) \div a.d >= LargeFrom
  /\ b.n # 0
  /\ b.d \div SmallBelow >= Abs(b.n)

\* a + b, exact but where one term absorbs the other.
RAddExact(a, b) ==
  IF ~IsNum(a) \/ ~IsNum(b) THEN NaN
  ELSE LET l == LCM(a.d, b.d)
       IN  R(a.n * (l \div a.d) + b.n * (l \div b.d), l)

\* a + b as the double addition rounds it.
RAdd(a, b) ==
  IF ~IsNum(a) \/ ~IsNum(b) THEN NaN
  ELSE IF AddAbsorbs(a, b) THEN a
  ELSE IF AddAbsorbs(b, a) THEN b
  ELSE RAddExact(a, b)

RNeg(a) == IF IsNum(a) THEN [n |-> -a.n, d |-> a.d] ELSE NaN

RSub(a, b) == RAdd(a, RNeg(b))

RMul(a, b) ==
  IF ~IsNum(a) \/ ~IsNum(b) THEN NaN
  ELSE LET g1 == GCD(Abs(a.n), b.d)
           g2 == GCD(Abs(b.n), a.d)
       IN  [n |-> (a.n \div g1) * (b.n \div g2),
            d |-> (a.d \div g2) * (b.d \div g1)]

\* x / 0 is NaN here: the only zero divisor the model reaches is 0 / 0.
RDiv(a, b) ==
  IF ~IsNum(a) \/ ~IsNum(b) \/ b.n = 0 THEN NaN
  ELSE IF b.n > 0 THEN RMul(a, [n |-> b.d, d |-> b.n])
       ELSE RMul(a, [n |-> -b.d, d |-> -b.n])

\* a < b; false when either side is NaN, as in JavaScript.
RLt(a, b) ==
  /\ IsNum(a)
  /\ IsNum(b)
  /\ LET l == LCM(a.d, b.d)
     IN  a.n * (l \div a.d) < b.n * (l \div b.d)

RLe(a, b) == IsNum(a) /\ IsNum(b) /\ ~RLt(b, a)

\* a === b on numbers: NaN equals nothing.
REq(a, b) == IsNum(a) /\ IsNum(b) /\ a = b

\* Math.floor, as an integer; only applied to finite values.
RFloor(a) == a.n \div a.d

Int2R(i) == [n |-> i, d |-> 1]

(* ------------------------------ state ---------------------------------- *)

VARIABLES
  pc,                \* position of the operation being run
  fn,                \* the exported function (or handler) being run
  params,            \* its parameters
  k,                 \* trial index of the running loop
  rate,              \* running rate of the current trial
  path,              \* path of the current trial (simulateFXPaths)
  spots,             \* FXPathSet.spots built so far
  hp,                \* parameters of applyHedgingToPaths
  t,                 \* month index of the hedging loop
  totalUnhedged,
  totalHedged,
  hedgeBook,
  unhedgedOutcomes,
  hedgedOutcomes,
  result,            \* value returned by the engine function
  outcomes,          \* input of a stand-alone summarisation
  summary,           \* its SimulationResult
  rev,               \* the revision of sim/monteCarlo the server imports
  req,               \* the request POST /api/cfar/run is handling
  hres,              \* the handler's locals: validated inputs, engine results
  calls,             \* the engine functions the handler has invoked so far
  resp               \* the response sent

vars == <<pc, fn, params, k, rate, path, spots, hp, t, totalUnhedged,
          totalHedged, hedgeBook, unhedgedOutcomes, hedgedOutcomes, result,
          outcomes, summary, rev, req, hres, calls, resp>>

handlerVars == <<rev, req, hres, calls, resp>>

engineVars == <<fn, params, k, rate, path, spots, hp, t, totalUnhedged,
                totalHedged, hedgeBook, unhedgedOutcomes, hedgedOutcomes,
                result>>

None == [none |-> TRUE]

Null == [null |-> TRUE]

HandlerIdle ==
  /\ rev = "none"
  /\ req = None
  /\ hres = None
  /\ calls = <<>>
  /\ resp = None

(* --------------------------- summarisation ----------------------------- *)

\* let s = 0; for (const x of arr) s += x: the running sum s after the
\* elements lo..hi have been added to it, in the order of the array (the
\* left half is summed first and its value handed to the right half).
RECURSIVE SumFrom(_, _, _, _)
SumFrom(s, arr, lo, hi) ==
  IF lo > hi THEN s
  ELSE IF lo = hi THEN RAdd(s, arr[lo])
  ELSE LET mid == (lo + hi) \div 2
           left == SumFrom(s, arr, lo, mid)
       IN  IF left = left THEN SumFrom(left, arr, mid + 1, hi) ELSE NaN

SumSeq(arr) == SumFrom(Zero, arr, 1, Len(arr))

\* mean(arr): the running sum divided by arr.length.
mean(arr) == RDiv(SumSeq(arr), Int2R(Len(arr)))

\* The comparator (a, b) => a - b asks for y before x exactly when x - y > 0.
Before(y, x) == RLt(Zero, RSub(x, y))

\* The stable merge of two sorted arrays: the middle element of a goes after
\* the elements of b the comparator puts before it, and before the others.
RECURSIVE Merge(_, _)
Merge(a, b) ==
  IF a = <<>> THEN b
  ELSE IF b = <<>> THEN a
  ELSE LET mid == (Len(a) + 1) \div 2
           j == Cardinality({i \in 1..Len(b) : Before(b[i], a[mid])})
       IN  Merge(SubSeq(a, 1, mid - 1), SubSeq(b, 1, j))
           \o <<a[mid]>>
           \o Merge(SubSeq(a, mid + 1, Len(a)), SubSeq(b, j + 1, Len(b)))

\* The array left in the order given.
SortAscNot(arr) == arr

\* [...outcomes].sort((a, b) => a - b), a stable merge sort.
RECURSIVE SortAsc(_)
SortAsc(arr) ==
  IF Len(arr) <= 1 THEN arr
  ELSE LET h == Len(arr) \div 2
       IN  Merge(SortAsc(SubSeq(arr, 1, h)), SortAsc(SubSeq(arr, h + 1, Len(arr))))

P5 == R(5, 100)

\* The exclusive-rank variant, sortedAsc[Math.floor(p * n)].
percentileOfN(sortedAsc, p) ==
  LET n == Len(sortedAsc)
      idx == RFloor(RMul(p, Int2R(n)))
  IN  IF idx + 1 \in 1..n THEN sortedAsc[idx + 1] ELSE Undef

\* percentile(sortedAsc, p): sortedAsc[Math.floor(p * (n - 1))], 0-based.
percentile(sortedAsc, p) ==
  LET n == Len(sortedAsc)
      idx == RFloor(RMul(p, Int2R(n - 1)))
  IN  IF idx + 1 \in 1..n THEN sortedAsc[idx + 1] ELSE Undef

Bins == 30

\* 2^24: from here on a double's neighbours are more than 2e-9 apart, so that
\* x + 1e-9 rounds back to x (also for x < -2^24, whose neighbour towards
\* zero is that far away).
AbsorbAt == 16777216

Absorbs(x) == IsNum(x) /\ (RFloor(x) >= AbsorbAt \/ RFloor(x) < -AbsorbAt)

\* if (max === min) max = min + 1e-9: eps counts the 1e-9 actually added.
HistMax(min, max) ==
  [v |-> max, eps |-> IF REq(max, min) /\ ~Absorbs(min) THEN 1 ELSE 0]

\* Math.floor((x - min) / width) with width = (max - min) / bins, clamped to
\* 0..bins-1; -1 stands for NaN, which neither clamp catches.
BinIndex(x, min, hmax) ==
  LET diff == RSub(x, min)
  IN  IF hmax.eps = 1
      THEN (IF ~IsNum(diff) THEN -1
            ELSE IF diff.n <= 0 THEN 0 ELSE Bins - 1)
      ELSE LET width == RDiv(RSub(hmax.v, min), Int2R(Bins))
               q == RDiv(diff, width)
           IN  IF ~IsNum(q) THEN -1
               ELSE IF RFloor(q) < 0 THEN 0
               ELSE IF RFloor(q) >= Bins THEN Bins - 1
               ELSE RFloor(q)

\* counts[idx]++ for every sample whose index is a number.
CountInto(arr, min, hmax) ==
  LET idx == [i \in 1..Len(arr) |-> BinIndex(arr[i], min, hmax)]
  IN  [b \in 1..Bins |-> Cardinality({i \in 1..Len(arr) : idx[i] = b - 1})]

buildHist(arr) ==
  LET sorted == SortAsc(arr)
      min == IF arr = <<>> THEN Undef ELSE sorted[1]
      max == IF arr = <<>> THEN Undef ELSE sorted[Len(sorted)]
      hmax == HistMax(min, max)
  IN  [bins |-> Bins, min |-> min, max |-> hmax,
       counts |-> CountInto(arr, min, hmax)]

summarize(arr, sims, months) ==
  LET sorted == SortAsc(arr)
      m == mean(arr)
      p5 == percentile(sorted, P5)
  IN  [mean |-> m, p5 |-> p5, cfar |-> RSub(m, p5), sims |-> sims,
       months |-> months, hist |-> buildHist(arr)]

(* ------------------------------ engine --------------------------------- *)

\* closesToReturns: returns[i - 1] = closes[i] / closes[i - 1] - 1.
closesToReturns(closes) ==
  [i \in 1..(Len(closes) - 1) |-> RSub(RDiv(closes[i + 1], closes[i]), One)]

\* monthlyReturns[randomIndex(monthlyReturns.length)]: any element; of an
\* empty array, element 0, which is undefined.
Drawn(monthlyReturns) ==
  IF monthlyReturns = <<>> THEN {Undef}
  ELSE {monthlyReturns[i] : i \in 1..Len(monthlyReturns)}

\* The lower clamp alone.
ClampLowerOnly(x, clampLower, clampUpper) ==
  IF ~IsUndef(clampLower) /\ RLt(x, clampLower) THEN clampLower ELSE x

\* The two clamps, lower first; an absent bound is skipped.
Clamp(x, clampLower, clampUpper) ==
  LET lo == IF ~IsUndef(clampLower) /\ RLt(x, clampLower) THEN clampLower ELSE x
  IN  IF ~IsUndef(clampUpper) /\ RLt(clampUpper, lo) THEN clampUpper ELSE lo

\* rate *= 1 + r, then the clamps.
NextRate(x, r, clampLower, clampUpper) ==
  Clamp(RMul(x, RAdd(One, r)), clampLower, clampUpper)

NoTenor == -1

\* An absent hedgeTenorMonths taken to be 0.
HedgeTenorDefaultZero(h) ==
  IF h.hedgeTenorMonths = NoTenor THEN 0 ELSE h.hedgeTenorMonths

\* hedgeTenorMonths = exposures.length when the parameter is absent.
HedgeTenor(h) ==
  IF h.hedgeTenorMonths = NoTenor THEN Len(h.exposures) ELSE h.hedgeTenorMonths

\* forwardFactor = forwardRate / fxPaths.spots[0][0].
ForwardFactor(h, pathSet) == RDiv(h.forwardRate, pathSet[1][1])

\* The contract pushed with the whole exposure as its notional.
OpenedBookFullNotional(book, h, fxPath, m, forwardFactor) ==
  LET hedgeTargetMonth == m + HedgeTenor(h)
  IN  IF hedgeTargetMonth < Len(h.exposures)
      THEN Append(book,
                  [settleMonth |-> hedgeTargetMonth,
                   forwardRate |-> RMul(fxPath[m + 1], forwardFactor),
                   notional |-> h.exposures[hedgeTargetMonth + 1]])
      ELSE book

\* The contract pushed at month m (0-based) of a path, if any.
OpenedBook(book, h, fxPath, m, forwardFactor) ==
  LET hedgeTargetMonth == m + HedgeTenor(h)
  IN  IF hedgeTargetMonth < Len(h.exposures)
      THEN Append(book,
                  [settleMonth |-> hedgeTargetMonth,
                   forwardRate |-> RMul(fxPath[m + 1], forwardFactor),
                   notional |-> RMul(h.exposures[hedgeTargetMonth + 1],
                                     h.hedgeRatio)])
      ELSE book

\* hedgedCashflow: the contracts settling at month m, in book order.
RECURSIVE SettledCashflow(_, _)
SettledCashflow(book, m) ==
  IF book = <<>> THEN Zero
  ELSE LET rest == SettledCashflow(Tail(book), m)
       IN  IF book[1].settleMonth = m
           THEN RAdd(RMul(book[1].notional, book[1].forwardRate), rest)
           ELSE rest

\* A filter that keeps every contract.
IsOpenAfterAlways(h, m) == TRUE

\* The filter's verdict: a contract stays unless it settles at month m.
IsOpenAfter(h, m) == h.settleMonth # m

\* The whole exposure left floating: exp * settleSpot.
FloatingCashflowWhole(exp, hedgeRatio, settleSpot) == RMul(exp, settleSpot)

\* exp * (1 - hedgeRatio) * settleSpot
FloatingCashflow(exp, hedgeRatio, settleSpot) ==
  RMul(RMul(exp, RSub(One, hedgeRatio)), settleSpot)

\* hedgedPart * forwardRate + unhedgedPart * rate (split-ratio revision)
SplitCashflow(exp, hedgeRatio, forwardRate, x) ==
  RAdd(RMul(RMul(exp, hedgeRatio), forwardRate),
       RMul(RMul(exp, RSub(One, hedgeRatio)), x))

\* unhedged.cfar > 0 ? (1 - hedged.cfar / unhedged.cfar) * 100 : 0
riskReductionPct(unhedged, hedged) ==
  IF RLt(Zero, unhedged.cfar)
  THEN RMul(RSub(One, RDiv(hedged.cfar, unhedged.cfar)), Int2R(100))
  ELSE Zero

(* ----------------- the engine run on a given draw stream --------------- *)

\* The return the i-th call (0-based) of randomIndex selects: draws names
\* indices into monthlyReturns, repeated cyclically.
DrawnAt(monthlyReturns, draws, i) ==
  IF monthlyReturns = <<>> THEN Undef
  ELSE monthlyReturns[draws[(i % Len(draws)) + 1] + 1]

\* The rates of one trial after its first, second, ... month, from the
\* trial's first draw on.
RECURSIVE RatesFrom(_, _, _, _, _)
RatesFrom(x, p, draws, i, left) ==
  IF left = 0 THEN <<>>
  ELSE LET nr == NextRate(x, DrawnAt(p.monthlyReturns, draws, i),
                          p.clampLower, p.clampUpper)
       IN  <<nr>> \o RatesFrom(nr, p, draws, i + 1, left - 1)

\* simulateFXPaths: trial k (0-based) consumes draws k*months onwards.
FXPathsOn(p, draws) ==
  [i \in 1..p.sims |->
     <<p.spot>> \o RatesFrom(p.spot, p, draws, (i - 1) * p.months, p.months)]

\* total += exposures[t] * rate over the months of a trial.
RECURSIVE FloatingTotal(_, _, _, _)
FloatingTotal(exposures, fxPath, m, months) ==
  IF m >= months THEN Zero
  ELSE RAdd(RMul(exposures[m + 1], fxPath[m + 2]),
            FloatingTotal(exposures, fxPath, m + 1, months))

\* simulateCFaR on the draw stream: the SimulationResult of the totals.
CFaROn(p, exposures, draws) ==
  LET set == FXPathsOn(p, draws)
      totals == [i \in 1..p.sims |->
                   FloatingTotal(exposures, set[i], 0, p.months)]
  IN  summarize(totals, p.sims, p.months)

\* totalHedged of one path from month m on, given the open book.
RECURSIVE HedgedTotal(_, _, _, _, _)
HedgedTotal(book, h, fxPath, m, forwardFactor) ==
  IF m >= Len(h.exposures) THEN Zero
  ELSE LET opened == OpenedBook(book, h, fxPath, m, forwardFactor)
       IN  RAdd(RAdd(SettledCashflow(opened, m),
                     FloatingCashflow(h.exposures[m + 1], h.hedgeRatio,
                                      fxPath[m + 2])),
                HedgedTotal(SelectSeq(opened, LAMBDA c : IsOpenAfter(c, m)),
                            h, fxPath, m + 1, forwardFactor))

HedgedResult(unhedgedOut, hedgedOut, h) ==
  LET sims == Len(unhedgedOut)
      months == Len(h.exposures)
      unhedged == summarize(unhedgedOut, sims, months)
      hedged == summarize(hedgedOut, sims, months)
  IN  [unhedged |-> unhedged, hedged |-> hedged,
       hedgeRatio |-> h.hedgeRatio, forwardRate |-> h.forwardRate,
       riskReductionPct |-> riskReductionPct(unhedged, hedged)]

\* applyHedgingToPaths on a path set.
ApplyHedgingOn(pathSet, h) ==
  LET ff == ForwardFactor(h, pathSet)
  IN  HedgedResult(
        [i \in 1..Len(pathSet) |->
           FloatingTotal(h.exposures, pathSet[i], 0, Len(h.exposures))],
        [i \in 1..Len(pathSet) |-> HedgedTotal(<<>>, h, pathSet[i], 0, ff)],
        h)

\* totalHedged of one trial of the split-ratio revision.
RECURSIVE SplitTotal(_, _, _, _)
SplitTotal(h, fxPath, m, months) ==
  IF m >= months THEN Zero
  ELSE RAdd(SplitCashflow(h.exposures[m + 1], h.hedgeRatio, h.forwardRate,
                          fxPath[m + 2]),
            SplitTotal(h, fxPath, m + 1, months))

\* simulateHedgedCFaR of the split-ratio revision on the draw stream.
SplitHedgedOn(p, h, draws) ==
  LET set == FXPathsOn(p, draws)
  IN  HedgedResult(
        [i \in 1..p.sims |-> FloatingTotal(h.exposures, set[i], 0, p.months)],
        [i \in 1..p.sims |-> SplitTotal(h, set[i], 0, p.months)],
        h)

\* simulateHedgedCFaR of the rolling revision: simulateFXPaths, then
\* applyHedgingToPaths with the caller's hedgeTenorMonths.
RollingHedgedOn(p, h, draws) == ApplyHedgingOn(FXPathsOn(p, draws), h)

MaxMonths == 3
MaxSims == 2
MaxTenor == 2

Spots == {R(21, 20)}

ReturnSeriesSet == {closesToReturns(<<One, R(11, 10), R(99, 100)>>)}

ClampSet ==
  {<<Undef, Undef>>, <<One, R(6, 5)>>, <<R(11, 10), R(6, 5)>>,
   <<R(6, 5), One>>}

ExposureValues == {Zero, R(100, 1)}

ExposureSchedules(months) == [1..months -> ExposureValues]

HedgeRatios == {Zero, R(1, 2), One}

ForwardRates == {R(21, 20), R(21, 10)}

Tenors == {NoTenor} \cup 0..MaxTenor

SimParams ==
  [spot : Spots, monthlyReturns : ReturnSeriesSet, sims : 1..MaxSims,
   months : 1..MaxMonths, clamp : ClampSet]

\* simulateFXPaths (rolling revision) entered: the first path holds the spot.
InitFXPaths ==
  /\ fn = "simulateFXPaths"
  /\ \E sp \in SimParams :
       /\ params = [spot |-> sp.spot, monthlyReturns |-> sp.monthlyReturns,
                    sims |-> sp.sims, months |-> sp.months,
                    clampLower |-> sp.clamp[1], clampUpper |-> sp.clamp[2]]
       /\ rate = sp.spot
       /\ path = <<sp.spot>>
  /\ pc = "paths"
  /\ k = 0
  /\ spots = <<>>
  /\ hp = None
  /\ t = 0
  /\ totalUnhedged = Zero
  /\ totalHedged = Zero
  /\ hedgeBook = <<>>
  /\ unhedgedOutcomes = <<>>
  /\ hedgedOutcomes = <<>>
  /\ result = None

\* simulateHedgedCFaR of the split-ratio revision entered.
InitSplit ==
  /\ fn = "simulateHedgedCFaR"
  /\ \E sp \in SimParams :
       /\ params = [spot |-> sp.spot, monthlyReturns |-> sp.monthlyReturns,
                    sims |-> sp.sims, months |-> sp.months,
                    clampLower |-> sp.clamp[1], clampUpper |-> sp.clamp[2]]
       /\ rate = sp.spot
       /\ \E e \in ExposureSchedules(sp.months), hr \in HedgeRatios,
             fwd \in ForwardRates :
            hp = [exposures |-> e, hedgeRatio |-> hr, forwardRate |-> fwd,
                  hedgeTenorMonths |-> NoTenor]
  /\ pc = "split"
  /\ path = <<>>
  /\ k = 0
  /\ spots = <<>>
  /\ t = 0
  /\ totalUnhedged = Zero
  /\ totalHedged = Zero
  /\ hedgeBook = <<>>
  /\ unhedgedOutcomes = <<>>
  /\ hedgedOutcomes = <<>>
  /\ result = None

Init ==
  /\ InitFXPaths \/ InitSplit
  /\ outcomes = <<>>
  /\ summary = None
  /\ HandlerIdle

\* One iteration of simulateFXPaths' month loop on the drawn return r; the
\* last one of a path stores the path and starts the next trial with a fresh
\* path and rate, the last of all leaves the loops.
FXIteration(r, running, finished) ==
  LET nr == NextRate(rate, r, params.clampLower, params.clampUpper)
      np == Append(path, nr)
  IN  IF Len(np) = params.months + 1
      THEN /\ spots' = Append(spots, np)
           /\ k' = k + 1
           /\ IF k + 1 = params.sims
              THEN pc' = finished /\ path' = <<>> /\ rate' = Undef
              ELSE pc' = running /\ path' = <<params.spot>>
                   /\ rate' = params.spot
      ELSE /\ path' = np
           /\ rate' = nr
           /\ UNCHANGED <<spots, k, pc>>

\* simulateFXPaths runs one iteration and, after the last, returns.
FXStep ==
  /\ pc = "paths"
  /\ \E r \in Drawn(params.monthlyReturns) : FXIteration(r, "paths", "pathsDone")
  /\ UNCHANGED <<fn, params, hp, t, totalUnhedged, totalHedged, hedgeBook,
                 unhedgedOutcomes, hedgedOutcomes, result, outcomes, summary, handlerVars>>

\* applyHedgingToPaths called on the path set (simulateHedgedCFaR of the
\* rolling revision is this call after simulateFXPaths, with the caller's
\* hedgeTenorMonths, absent when the caller passes none).
ApplyHedging ==
  /\ pc = "pathsDone"
  /\ \E e \in ExposureSchedules(params.months), hr \in HedgeRatios,
        fwd \in ForwardRates, tenor \in Tenors :
       hp' = [exposures |-> e, hedgeRatio |-> hr, forwardRate |-> fwd,
              hedgeTenorMonths |-> tenor]
  /\ fn' = "applyHedgingToPaths"
  /\ pc' = "hedge"
  /\ k' = 0
  /\ t' = 0
  /\ totalUnhedged' = Zero
  /\ totalHedged' = Zero
  /\ hedgeBook' = <<>>
  /\ unhedgedOutcomes' = <<>>
  /\ hedgedOutcomes' = <<>>
  /\ UNCHANGED <<params, rate, path, spots, result, outcomes, summary, handlerVars>>

\* One iteration of applyHedgingToPaths' month loop.
HedgeMonth ==
  /\ pc = "hedge"
  /\ t < Len(hp.exposures)
  /\ LET fxPath == spots[k + 1]
         opened == OpenedBook(hedgeBook, hp, fxPath, t, ForwardFactor(hp, spots))
         hedgedCashflow == SettledCashflow(opened, t)
     IN  /\ hedgeBook' = SelectSeq(opened, LAMBDA h : IsOpenAfter(h, t))
         /\ totalHedged' =
              RAdd(totalHedged,
                   RAdd(hedgedCashflow,
                        FloatingCashflow(hp.exposures[t + 1], hp.hedgeRatio,
                                         fxPath[t + 2])))
         /\ totalUnhedged' =
              RAdd(totalUnhedged, RMul(hp.exposures[t + 1], fxPath[t + 2]))
  /\ t' = t + 1
  /\ UNCHANGED <<pc, fn, params, k, rate, path, spots, hp, unhedgedOutcomes,
                 hedgedOutcomes, result, outcomes, summary, handlerVars>>

\* The month loop of a path is over: its totals are stored and the next
\* trial starts with zero totals and an empty book.
EndTrial ==
  /\ pc = "hedge"
  /\ t = Len(hp.exposures)
  /\ unhedgedOutcomes' = Append(unhedgedOutcomes, totalUnhedged)
  /\ hedgedOutcomes' = Append(hedgedOutcomes, totalHedged)
  /\ k' = k + 1
  /\ t' = 0
  /\ totalUnhedged' = Zero
  /\ totalHedged' = Zero
  /\ hedgeBook' = <<>>
  /\ pc' = IF k + 1 = Len(spots) THEN "hedged" ELSE "hedge"
  /\ UNCHANGED <<fn, params, rate, path, spots, hp, result, outcomes, summary, handlerVars>>

\* One iteration of the split-ratio revision's month loop; the last one of a
\* trial stores the totals and starts the next trial.
SplitStep ==
  /\ pc = "split"
  /\ \E r \in Drawn(params.monthlyReturns) :
       LET nr == NextRate(rate, r, params.clampLower, params.clampUpper)
           tu == RAdd(totalUnhedged, RMul(hp.exposures[t + 1], nr))
           th == RAdd(totalHedged,
                      SplitCashflow(hp.exposures[t + 1], hp.hedgeRatio,
                                    hp.forwardRate, nr))
       IN  IF t + 1 = params.months
           THEN /\ unhedgedOutcomes' = Append(unhedgedOutcomes, tu)
                /\ hedgedOutcomes' = Append(hedgedOutcomes, th)
                /\ k' = k + 1
                /\ t' = 0
                /\ rate' = params.spot
                /\ totalUnhedged' = Zero
                /\ totalHedged' = Zero
                /\ pc' = IF k + 1 = params.sims THEN "hedged" ELSE "split"
           ELSE /\ rate' = nr
                /\ t' = t + 1
                /\ totalUnhedged' = tu
                /\ totalHedged' = th
                /\ UNCHANGED <<unhedgedOutcomes, hedgedOutcomes, k, pc>>
  /\ UNCHANGED <<fn, params, path, spots, hp, hedgeBook, result, outcomes,
                 summary, handlerVars>>

\* Both outcome sets are summarised and the HedgedSimulationResult returned.
ReturnHedged ==
  /\ pc = "hedged"
  /\ result' = HedgedResult(unhedgedOutcomes, hedgedOutcomes, hp)
  /\ pc' = "done"
  /\ UNCHANGED <<fn, params, k, rate, path, spots, hp, t, totalUnhedged,
                 totalHedged, hedgeBook, unhedgedOutcomes, hedgedOutcomes,
                 outcomes, summary, handlerVars>>

Next == FXStep \/ ApplyHedging \/ HedgeMonth \/ EndTrial \/ SplitStep \/ ReturnHedged

Spec == Init /\ [][Next]_vars

(* ------------------------------ claims --------------------------------- *)

RECURSIVE SumInts(_)
SumInts(s) == IF s = <<>> THEN 0 ELSE s[1] + SumInts(Tail(s))

AllFinite(arr) == \A i \in 1..Len(arr) : IsNum(arr[i])

AllSame(arr) == \A i \in 1..Len(arr) : arr[i] = arr[1]

Supplied(bound) == ~IsUndef(bound)

\* C1 (as stated): in every path simulateFXPaths has produced, every element,
\* the spot at index 0 included, lies within the supplied clamp bounds.
C1_EveryIndexWithinBounds ==
  \A i \in 1..Len(spots) : \A j \in 1..Len(spots[i]) :
    /\ Supplied(params.clampLower) => RLe(params.clampLower, spots[i][j])
    /\ Supplied(params.clampUpper) => RLe(spots[i][j], params.clampUpper)

PathsSoFar == {spots[i] : i \in 1..Len(spots)} \cup {path}

\* C1 (amended): element 0 of a path is the spot as given; every later
\* element is at most clampUpper when that is supplied, and at least
\* clampLower when that is supplied and not above a supplied clampUpper.
C1_SimulatedRatesWithinBounds ==
  fn = "simulateFXPaths" =>
    \A p \in PathsSoFar :
      /\ p # <<>> => p[1] = params.spot
      /\ \A j \in 2..Len(p) :
           /\ Supplied(params.clampUpper) => RLe(p[j], params.clampUpper)
           /\ (/\ Supplied(params.clampLower)
               /\ Supplied(params.clampUpper) =>
                    RLe(params.clampLower, params.clampUpper))
              => RLe(params.clampLower, p[j])

\* A path set is complete whose spot lies below clampLower and in which a
\* simulated rate was raised to clampLower and another lowered to clampUpper.
C1_ClampActed ==
  /\ pc = "pathsDone"
  /\ Supplied(params.clampLower)
  /\ Supplied(params.clampUpper)
  /\ RLt(params.spot, params.clampLower)
  /\ \E i \in 1..Len(spots) : \E j \in 2..Len(spots[i]) :
       spots[i][j] = params.clampLower
  /\ \E i \in 1..Len(spots) : \E j \in 2..Len(spots[i]) :
       spots[i][j] = params.clampUpper

\* C2: with hedgeRatio = 0, applyHedgingToPaths gives every trial a hedged
\* outcome equal to its unhedged outcome (month by month as well).
C2_ZeroRatioIsNoOp ==
  (fn = "applyHedgingToPaths" /\ hp.hedgeRatio = Zero) =>
    /\ hedgedOutcomes = unhedgedOutcomes
    /\ totalHedged = totalUnhedged
    /\ pc = "done" => result.hedged = result.unhedged

\* Two trials with different, non-zero outcomes were hedged at ratio 0 with
\* a forward rate off the spot and a tenor that opens (zero-notional)
\* contracts.
C2_ZeroNotionalContractsSettled ==
  /\ pc = "done"
  /\ fn = "applyHedgingToPaths"
  /\ hp.hedgeRatio = Zero
  /\ hp.forwardRate # params.spot
  /\ HedgeTenor(hp) < Len(hp.exposures)
  /\ Len(hedgedOutcomes) = 2
  /\ hedgedOutcomes[1] # hedgedOutcomes[2]
  /\ RLt(Zero, hedgedOutcomes[1])

\* C3: with hedgeRatio = 1 and forwardRate = spot, every trial's hedged
\* outcome is the same value whatever its path, so the hedged cfar is 0.
C3_FullHedgeAtSpotHasNoExposure ==
  (/\ pc = "done"
   /\ fn = "applyHedgingToPaths"
   /\ hp.hedgeRatio = One
   /\ hp.forwardRate = params.spot) =>
    /\ AllSame(hedgedOutcomes)
    /\ result.hedged.cfar = Zero

ScenarioPath == <<R(21, 20), R(231, 200), R(2541, 2000), R(27951, 20000)>>

ScenarioExposures == <<R(100, 1), R(100, 1), R(100, 1)>>

\* C4: for the path [1.05, 1.155, 1.2705, 1.39755], exposures [100, 100,
\* 100], hedgeRatio 1, forwardRate 1.05 and hedgeTenorMonths 1 the hedged
\* outcome is 315 and the unhedged outcome 382.305.
C4_ScenarioHedgedOutcomeIs315 ==
  (/\ fn = "applyHedgingToPaths"
   /\ hp.exposures = ScenarioExposures
   /\ hp.hedgeRatio = One
   /\ hp.forwardRate = R(21, 20)
   /\ hp.hedgeTenorMonths = 1) =>
    \A i \in 1..Len(hedgedOutcomes) :
      spots[i] = ScenarioPath =>
        /\ unhedgedOutcomes[i] = R(382305, 1000)
        /\ hedgedOutcomes[i] = R(315, 1)

\* hedgeRatio * forwardRate * sum(exposures) + (1 - hedgeRatio) * unhedged
SplitOutcome(h, unhedgedOutcome) ==
  RAdd(RMul(RMul(h.hedgeRatio, h.forwardRate), SumSeq(h.exposures)),
       RMul(RSub(One, h.hedgeRatio), unhedgedOutcome))

\* sum over t of exposures[t] * fxPath[t + 1]
RECURSIVE FloatingOutcome(_, _, _)
FloatingOutcome(exposures, fxPath, m) ==
  IF m > Len(exposures) THEN Zero
  ELSE RAdd(RMul(exposures[m], fxPath[m + 1]),
            FloatingOutcome(exposures, fxPath, m + 1))

WithoutTenor ==
  \/ fn = "simulateHedgedCFaR"
  \/ fn = "applyHedgingToPaths" /\ hp.hedgeTenorMonths = NoTenor

\* C5: in both engine revisions, simulateHedgedCFaR called without
\* hedgeTenorMonths gives every trial the hedged outcome sum over t of
\* exposures[t] * (hedgeRatio * forwardRate + (1 - hedgeRatio) * rate[t+1]);
\* at hedgeRatio = 1 that is forwardRate * sum(exposures).
C5_HedgedPartConvertsAtForward ==
  WithoutTenor =>
    \A i \in 1..Len(hedgedOutcomes) :
      /\ hedgedOutcomes[i] = SplitOutcome(hp, unhedgedOutcomes[i])
      /\ fn = "applyHedgingToPaths" =>
           unhedgedOutcomes[i] = FloatingOutcome(hp.exposures, spots[i], 1)
      /\ hp.hedgeRatio = One =>
           hedgedOutcomes[i] = RMul(hp.forwardRate, SumSeq(hp.exposures))

\* C8: the riskReductionPct returned by the hedged simulation lies in 0..100.
C8_RiskReductionWithin0And100 ==
  pc = "done" =>
    /\ RLe(Zero, result.riskReductionPct)
    /\ RLe(result.riskReductionPct, Int2R(100))

(* ---------------- summarisation of a given outcome set ----------------- *)

MaxShort == 3
MaxSamples == 22

OutcomeValues ==
  {R(-100, 1), Zero, R(100, 1), R(105, 1), R(231, 2),
   R(AbsorbAt - 1, 1), R(AbsorbAt, 1)}

\* Every short outcome array, and long ones (20 samples and more, where the
\* 5th percentile's index leaves 0) that are constant but for both ends.
OutcomeSets ==
  UNION {[1..n -> OutcomeValues] : n \in 1..MaxShort}
  \cup {[i \in 1..n |-> IF i = 1 THEN w1 ELSE IF i = n THEN w2 ELSE v] :
          n \in 20..MaxSamples, v \in OutcomeValues, w1 \in OutcomeValues,
          w2 \in OutcomeValues}

EngineIdle ==
  /\ fn = "none"
  /\ params = None
  /\ k = 0
  /\ rate = Undef
  /\ path = <<>>
  /\ spots = <<>>
  /\ hp = None
  /\ t = 0
  /\ totalUnhedged = Zero
  /\ totalHedged = Zero
  /\ hedgeBook = <<>>
  /\ unhedgedOutcomes = <<>>
  /\ hedgedOutcomes = <<>>
  /\ result = None

SummaryInit ==
  /\ pc = "summarize"
  /\ outcomes \in OutcomeSets
  /\ summary = None
  /\ EngineIdle
  /\ HandlerIdle

\* const summarize = (outcomes) => {...} applied to an array of sims outcomes.
Summarize ==
  /\ pc = "summarize"
  /\ summary' = summarize(outcomes, Len(outcomes), 1)
  /\ pc' = "summarized"
  /\ UNCHANGED <<outcomes, engineVars, handlerVars>>

SummaryNext == Summarize

SpecSummary == SummaryInit /\ [][SummaryNext]_vars

(* ----------------------- claims on summaries -------------------------- *)

\* C6: every summarised set of finite outcomes has a histogram of exactly 30
\* bins whose counts sum to sims, each sample counted in one bin 0..29, and a
\* set of identical outcomes is counted wholly in bin 0.
C6_HistogramCountsEverySample ==
  (pc = "summarized" /\ AllFinite(outcomes)) =>
    /\ summary.hist.bins = 30
    /\ Len(summary.hist.counts) = 30
    /\ SumInts(summary.hist.counts) = Len(outcomes)
    /\ \A i \in 1..Len(outcomes) :
         BinIndex(outcomes[i], summary.hist.min, summary.hist.max) \in 0..29
    /\ AllSame(outcomes) => summary.hist.counts[1] = Len(outcomes)

\* The histogram of a set of identical outcomes of magnitude 2^24 or more has
\* been built: the widening by 1e-9 left max equal to min.
C6_DegenerateNotWidened ==
  /\ pc = "summarized"
  /\ AllSame(outcomes)
  /\ summary.hist.max.eps = 0
  /\ SumInts(summary.hist.counts) = 0

NumBelow(arr, v) == Cardinality({i \in 1..Len(arr) : RLt(arr[i], v)})

NumAtMost(arr, v) == Cardinality({i \in 1..Len(arr) : RLe(arr[i], v)})

\* C7: p5 is the sample of rank floor(0.05 * (sims - 1)) (0-based) in
\* ascending order, that is a sample with at most that many samples below it
\* and more than that many at or below it, and cfar = mean - p5 where mean is
\* the sum of the samples over sims.
C7_P5IsNearestRank ==
  pc = "summarized" =>
    LET n == Len(outcomes)
        rank == (5 * (n - 1)) \div 100
    IN  /\ \E i \in 1..n : outcomes[i] = summary.p5
        /\ NumBelow(outcomes, summary.p5) <= rank
        /\ NumAtMost(outcomes, summary.p5) > rank
        /\ RMul(summary.mean, Int2R(n)) = SumSeq(outcomes)
        /\ summary.cfar = RSub(summary.mean, summary.p5)

\* A set of 21 samples has been summarised whose p5 is the second smallest
\* sample, above the minimum and below the mean.
C7_RankOneReached ==
  /\ pc = "summarized"
  /\ Len(outcomes) = 21
  /\ NumBelow(outcomes, summary.p5) = 1
  /\ RLt(summary.p5, summary.mean)

(* ---------------------- POST /api/cfar/run handler --------------------- *)

\* ./fxData is not among the sources: one pair, with the history and spot of
\* the specification's worked scenario.
FX_DATA ==
  [GBPUSD |-> [spot |-> R(21, 20),
               closes |-> <<One, R(11, 10), R(99, 100), R(21, 20)>>]]

MinMonths == 1
MaxMonthsAllowed == 60
DefaultMonths == 12
MinSimsAllowed == 100
MaxSimsAllowed == 200000
DefaultSims == 5000

\* !homeCcy || !exposureCcy: the empty string stands for every falsy value.
CcyMissing(r) == r.homeCcy = "" \/ r.exposureCcy = ""

\* Number.isFinite(x) ? Number(x) : dflt, x a finite number or anything else.
NumberOr(x, dflt) == IF IsNum(x) THEN x ELSE Int2R(dflt)

IsIntegerIn(x, lo, hi) == IsNum(x) /\ x.d = 1 /\ x.n >= lo /\ x.n <= hi

Horizon(r) == NumberOr(r.months, DefaultMonths)

SimsNum(r) == NumberOr(r.sims, DefaultSims)

HorizonBad(r) == ~IsIntegerIn(Horizon(r), MinMonths, MaxMonthsAllowed)

SimsBad(r) == ~IsIntegerIn(SimsNum(r), MinSimsAllowed, MaxSimsAllowed)

\* !Array.isArray(exposures) || exposures.length !== horizon
ExposuresBad(r) ==
  ~r.exposures.isArray \/ Int2R(Len(r.exposures.items)) # Horizon(r)

\* A value is provided unless it is undefined, null or "" (Undef here);
\* Number(value) is NaN for what does not parse.
ForwardRateBad(r) ==
  ~IsUndef(r.forwardRate) /\ (~IsNum(r.forwardRate) \/ r.forwardRate.n <= 0)

\* The upper limit left out.
HedgeRatioBadNoUpper(r) ==
  ~IsUndef(r.hedgeRatio) /\ (~IsNum(r.hedgeRatio) \/ r.hedgeRatio.n < 0)

HedgeRatioBad(r) ==
  /\ ~IsUndef(r.hedgeRatio)
  /\ \/ ~IsNum(r.hedgeRatio)
     \/ r.hedgeRatio.n < 0
     \/ RLt(One, r.hedgeRatio)

PairKey(r) == r.homeCcy \o r.exposureCcy

PairUnknown(r) == PairKey(r) \notin DOMAIN FX_DATA

\* The first check that fails, in the handler's order; "" when none does.
ValidationError(r) ==
  IF CcyMissing(r) THEN "homeCcy and exposureCcy required"
  ELSE IF HorizonBad(r) THEN "months must be 1-60"
  ELSE IF SimsBad(r) THEN "sims must be 100-200000"
  ELSE IF ExposuresBad(r) THEN "exposures must be length horizon"
  ELSE IF ForwardRateBad(r) THEN "forwardRate must be a positive number"
  ELSE IF HedgeRatioBad(r) THEN "hedgeRatio must be between 0 and 1"
  ELSE IF PairUnknown(r) THEN "No FX data for pair"
  ELSE ""

RECURSIVE MinOf(_)
MinOf(xs) ==
  IF Len(xs) = 1 THEN xs[1]
  ELSE LET m == MinOf(Tail(xs)) IN IF RLt(xs[1], m) THEN xs[1] ELSE m

RECURSIVE MaxOf(_)
MaxOf(xs) ==
  IF Len(xs) = 1 THEN xs[1]
  ELSE LET m == MaxOf(Tail(xs)) IN IF RLt(m, xs[1]) THEN xs[1] ELSE m

\* The parameters every engine call of the handler is given.
EngineParams(r) ==
  LET pair == FX_DATA[PairKey(r)]
  IN  [spot |-> pair.spot,
       monthlyReturns |-> closesToReturns(pair.closes),
       sims |-> SimsNum(r).n,
       months |-> Horizon(r).n,
       clampLower |-> RMul(MinOf(pair.closes), R(85, 100)),
       clampUpper |-> RMul(MaxOf(pair.closes), R(115, 100))]

\* The selected ratio taken to be 1 whatever the request says.
SelectedRatioAlwaysFull(r) == One

\* let hr = 0, replaced by a provided hedgeRatio.
SelectedRatio(r) == IF IsUndef(r.hedgeRatio) THEN Zero ELSE r.hedgeRatio

HedgeParams(r, ratio) ==
  [exposures |-> r.exposures.items, hedgeRatio |-> ratio,
   forwardRate |-> r.forwardRate, hedgeTenorMonths |-> NoTenor]

\* simulateHedgedCFaR of the revision the server imports.
HedgedOn(revision, p, h, draws) ==
  IF revision = "splitRatio" THEN SplitHedgedOn(p, h, draws)
  ELSE RollingHedgedOn(p, h, draws)

MaxHorizon == 2

ExposureItems == {R(1, 1), NaN}

\* exposures: not an array, or an array of numbers and of values that
\* convert to NaN.
ExposureInputs ==
  {[isArray |-> FALSE, items |-> <<>>]}
  \cup {[isArray |-> TRUE, items |-> e] :
          e \in UNION {[1..n -> ExposureItems] : n \in 0..MaxHorizon}}

\* sims is given as a number: the default of 5000 trials is beyond the bounds.
Requests ==
  [hasBody : {TRUE},
   homeCcy : {"", "GBP"},
   exposureCcy : {"USD", "JPY"},
   exposures : ExposureInputs,
   months : {Undef, Zero, R(1, 1), R(3, 2), R(2, 1), R(61, 1)},
   sims : {R(99, 1), R(100, 1), R(201, 2), R(200001, 1)},
   forwardRate : {Undef, NaN, Zero, R(21, 20)},
   hedgeRatio : {Undef, NaN, R(1, 2), R(3, 2)}]
  \cup
  [hasBody : {FALSE}, homeCcy : {""}, exposureCcy : {""},
   exposures : {[isArray |-> FALSE, items |-> <<>>]}, months : {Undef},
   sims : {Undef}, forwardRate : {Undef}, hedgeRatio : {Undef}]

\* The index sequences Math.random may produce, each repeated cyclically.
DrawStreams == {<<0>>, <<1, 0, 2>>}

HandlerInit ==
  /\ pc = "received"
  /\ rev \in {"splitRatio", "rolling"}
  /\ req \in Requests
  /\ hres = None
  /\ calls = <<>>
  /\ resp = None
  /\ EngineIdle
  /\ outcomes = <<>>
  /\ summary = None

ErrorResponse(status, message) ==
  [status |-> status, body |-> [error |-> message]]

\* Lines 31-115: the destructuring and the checks.  A request without a
\* parsed body is destructured from undefined, which throws into the catch
\* block, or from {} when the body parser supplies one.
Validate ==
  /\ pc = "received"
  /\ \/ /\ ~req.hasBody
        /\ resp' \in {ErrorResponse(500, "Cannot destructure"),
                      ErrorResponse(400, ValidationError(req))}
        /\ pc' = "responded"
     \/ /\ req.hasBody
        /\ ValidationError(req) # ""
        /\ resp' = ErrorResponse(400, ValidationError(req))
        /\ pc' = "responded"
     \/ /\ req.hasBody
        /\ ValidationError(req) = ""
        /\ resp' = resp
        /\ pc' = "validated"
  /\ UNCHANGED <<rev, req, hres, calls, engineVars, outcomes, summary>>

\* Lines 117-135: the unhedged simulation, always run.
RunUnhedged ==
  /\ pc = "validated"
  /\ \E draws \in DrawStreams :
       /\ hres' = [unhedged |-> CFaROn(EngineParams(req), req.exposures.items,
                                       draws)]
       /\ calls' = Append(calls, [fn |-> "simulateCFaR", draws |-> draws])
  /\ pc' = "simulated"
  /\ UNCHANGED <<rev, req, resp, engineVars, outcomes, summary>>

\* Lines 138-160: without a forward rate the unhedged result is the answer.
RespondUnhedged ==
  /\ pc = "simulated"
  /\ IsUndef(req.forwardRate)
  /\ resp' = [status |-> 200,
              body |-> [pair |-> PairKey(req),
                        spot |-> FX_DATA[PairKey(req)].spot,
                        months |-> hres.unhedged.months,
                        sims |-> hres.unhedged.sims,
                        forwardRate |-> Null,
                        hedgeRatio |-> SelectedRatio(req),
                        mean |-> hres.unhedged.mean,
                        p5 |-> hres.unhedged.p5,
                        cfar |-> hres.unhedged.cfar,
                        hist |-> hres.unhedged.hist,
                        unhedged |-> hres.unhedged,
                        fullyHedged |-> Null,
                        selected |-> Null,
                        hedged |-> Null]]
  /\ pc' = "responded"
  /\ UNCHANGED <<rev, req, hres, calls, engineVars, outcomes, summary>>

\* Lines 163-173: the hedged simulation at the selected ratio.
RunPack ==
  /\ pc = "simulated"
  /\ ~IsUndef(req.forwardRate)
  /\ \E draws \in DrawStreams :
       /\ hres' = [unhedged |-> hres.unhedged,
                   pack |-> HedgedOn(rev, EngineParams(req),
                                     HedgeParams(req, SelectedRatio(req)),
                                     draws)]
       /\ calls' = Append(calls, [fn |-> "simulateHedgedCFaR", draws |-> draws,
                                  hedgeRatio |-> SelectedRatio(req)])
  /\ pc' = "packed"
  /\ UNCHANGED <<rev, req, resp, engineVars, outcomes, summary>>

\* Lines 176-186: the hedged simulation at hedgeRatio 1.
RunPack100 ==
  /\ pc = "packed"
  /\ \E draws \in DrawStreams :
       /\ hres' = [unhedged |-> hres.unhedged,
                   pack |-> hres.pack,
                   pack100 |-> HedgedOn(rev, EngineParams(req),
                                        HedgeParams(req, One), draws)]
       /\ calls' = Append(calls, [fn |-> "simulateHedgedCFaR", draws |-> draws,
                                  hedgeRatio |-> One])
  /\ pc' = "packed100"
  /\ UNCHANGED <<rev, req, resp, engineVars, outcomes, summary>>

\* Lines 188-216: the response with the hedged blocks.
RespondHedged ==
  /\ pc = "packed100"
  /\ resp' = [status |-> 200,
              body |-> [pair |-> PairKey(req),
                        spot |-> FX_DATA[PairKey(req)].spot,
                        months |-> Horizon(req).n,
                        sims |-> SimsNum(req).n,
                        forwardRate |-> req.forwardRate,
                        hedgeRatio |-> SelectedRatio(req),
                        mean |-> hres.pack.unhedged.mean,
                        p5 |-> hres.pack.unhedged.p5,
                        cfar |-> hres.pack.unhedged.cfar,
                        hist |-> hres.pack.unhedged.hist,
                        unhedged |-> hres.pack.unhedged,
                        fullyHedged |-> hres.pack100.hedged,
                        selected |-> hres.pack.hedged,
                        hedged |-> [mean |-> hres.pack.hedged.mean,
                                    p5 |-> hres.pack.hedged.p5,
                                    cfar |-> hres.pack.hedged.cfar,
                                    hist |-> hres.pack.hedged.hist,
                                    riskReductionPct |->
                                      hres.pack.riskReductionPct]]]
  /\ pc' = "responded"
  /\ UNCHANGED <<rev, req, hres, calls, engineVars, outcomes, summary>>

HandlerNext ==
  Validate \/ RunUnhedged \/ RespondUnhedged \/ RunPack \/ RunPack100
  \/ RespondHedged

SpecHandler == HandlerInit /\ [][HandlerNext]_vars

(* ----------------------- claims on the handler ------------------------- *)

IsIntegerWithin(x, lo, hi) == x.d = 1 /\ x.n \in lo..hi

\* The checks as the interface states them, on the request as sent: months
\* and sims are judged when given as numbers (anything else takes the
\* default, 12 months and 5000 trials).
FailsACheck(r) ==
  \/ r.homeCcy = ""
  \/ r.exposureCcy = ""
  \/ IsNum(r.months) /\ ~IsIntegerWithin(r.months, 1, 60)
  \/ IsNum(r.sims) /\ ~IsIntegerWithin(r.sims, 100, 200000)
  \/ ~r.exposures.isArray
  \/ Len(r.exposures.items) # (IF IsNum(r.months) THEN r.months.n ELSE 12)
  \/ ~IsUndef(r.forwardRate) /\ (IsNaN(r.forwardRate) \/ r.forwardRate.n <= 0)
  \/ /\ ~IsUndef(r.hedgeRatio)
     /\ \/ IsNaN(r.hedgeRatio)
        \/ r.hedgeRatio.n < 0
        \/ r.hedgeRatio.n > r.hedgeRatio.d
  \/ r.homeCcy \o r.exposureCcy # "GBPUSD"

\* C9: a request that fails a check is answered with an error before any
\* simulation function is invoked, and an error response (400 or 500) holds
\* the error alone, no result field.
C9_ErrorsPrecedeSimulation ==
  /\ (resp # None /\ resp.status # 200) =>
       /\ calls = <<>>
       /\ DOMAIN resp.body = {"error"}
  /\ (pc # "received" /\ FailsACheck(req)) =>
       /\ pc = "responded"
       /\ resp.status \in {400, 500}
       /\ calls = <<>>

\* A request that passes every check but the last, the pair lookup, has been
\* answered 400 with no engine function invoked.
C9_LastCheckRejected ==
  /\ pc = "responded"
  /\ resp.status = 400
  /\ resp.body.error = "No FX data for pair"
  /\ ~IsUndef(req.forwardRate)
  /\ ~IsUndef(req.hedgeRatio)
  /\ calls = <<>>

HasNonFiniteExposure(r) ==
  /\ r.exposures.isArray
  /\ \E i \in 1..Len(r.exposures.items) : ~IsNum(r.exposures.items[i])

\* C10: a request whose exposures array has the right length but holds a
\* non-finite element is answered with an error, and no simulation result is
\* produced from it.
C10_NonFiniteExposureRejected ==
  (pc = "responded" /\ HasNonFiniteExposure(req)) =>
    /\ resp.status # 200
    /\ calls = <<>>

(* ------------- closesToReturns on a given closing history -------------- *)

MaxCloses == 3

CloseValues == {One, R(11, 10), R(99, 100)}

\* pair.closes of any length from 0 on.
CloseSeries == UNION {[1..n -> CloseValues] : n \in 0..MaxCloses}

\* The handler holds a pair of FX_DATA (line 109) with some closing history.
ReturnsInit ==
  /\ pc = "pair"
  /\ \E c \in CloseSeries : hres = [pair |-> [spot |-> R(21, 20), closes |-> c]]
  /\ rev = "none"
  /\ req = None
  /\ calls = <<>>
  /\ resp = None
  /\ EngineIdle
  /\ outcomes = <<>>
  /\ summary = None

\* Line 117: const monthlyReturns = closesToReturns(pair.closes); the function
\* has no throw statement and returns its array for every input array.
ConvertCloses ==
  /\ pc = "pair"
  /\ hres' = [pair |-> hres.pair,
              monthlyReturns |-> closesToReturns(hres.pair.closes)]
  /\ calls' = Append(calls, [fn |-> "closesToReturns"])
  /\ pc' = "returns"
  /\ UNCHANGED <<rev, req, resp, engineVars, outcomes, summary>>

\* randomIndex(n) = Math.floor(Math.random() * n): 0..n-1, and 0 for n = 0.
RandomIndices(n) == IF n = 0 THEN {0} ELSE 0..(n - 1)

\* Lines 120-135: simulateCFaR is given the returns, here for one month and
\* one exposure of 100.
SimulateOnReturns ==
  /\ pc = "returns"
  /\ \E d \in RandomIndices(Len(hres.monthlyReturns)), n \in 1..2 :
       /\ hres' = [pair |-> hres.pair,
                   monthlyReturns |-> hres.monthlyReturns,
                   unhedged |->
                     CFaROn([spot |-> hres.pair.spot,
                             monthlyReturns |-> hres.monthlyReturns,
                             sims |-> n, months |-> 1,
                             clampLower |-> Undef, clampUpper |-> Undef],
                            <<R(100, 1)>>, <<d>>)]
       /\ calls' = Append(calls, [fn |-> "simulateCFaR", draws |-> <<d>>])
  /\ pc' = "simulatedOn"
  /\ UNCHANGED <<rev, req, resp, engineVars, outcomes, summary>>

ReturnsNext == ConvertCloses \/ SimulateOnReturns

SpecReturns == ReturnsInit /\ [][ReturnsNext]_vars

\* C11: closesToReturns given fewer than 2 closes fails, so that no empty
\* return series reaches the simulation; given 2 closes or more it returns
\* exactly len(closes) - 1 returns.
C11_ShortHistoryFails ==
  pc \in {"returns", "simulatedOn"} =>
    /\ Len(hres.pair.closes) >= 2
    /\ hres.monthlyReturns # <<>>
    /\ Len(hres.monthlyReturns) = Len(hres.pair.closes) - 1

\* The simulation has run on the empty return series closesToReturns made of
\* a single close: the drawn return is undefined and the summary is NaN.
C11_SimulatedOnEmptySeries ==
  /\ pc = "simulatedOn"
  /\ Len(hres.pair.closes) = 1
  /\ hres.monthlyReturns = <<>>
  /\ IsNaN(hres.unhedged.mean)

(* ------------------ claims on the handler's three runs ------------------ *)

\* The path set a logged engine call simulated for the request.
PathSetOf(call) == FXPathsOn(EngineParams(req), call.draws)

BothHedgedRunsDone == pc \in {"packed100", "responded"} /\ Len(calls) = 3

\* C12: when a request makes the handler compute the selected-ratio and the
\* fully-hedged results, both are computed over the same simulated rate paths
\* (so the two runs have the same per-trial unhedged summary).
C12_HedgedRunsShareThePathSet ==
  BothHedgedRunsDone =>
    /\ PathSetOf(calls[2]) = PathSetOf(calls[3])
    /\ hres.pack100.unhedged = hres.pack.unhedged

SummaryFields == {"mean", "p5", "cfar", "sims", "months", "hist"}

IsSummary(x) == x # Null /\ DOMAIN x = SummaryFields

RequestedRatio(r) == IF IsUndef(r.hedgeRatio) THEN Zero ELSE r.hedgeRatio

\* C13: every accepted request is answered 200 with the unhedged summary;
\* without a forwardRate the fields hedged, selected and fullyHedged are null
\* and no hedged simulation has run; with a forwardRate the response carries
\* the summary of a hedged run at the requested hedgeRatio (0 when absent),
\* the summary of a hedged run at hedgeRatio 1, and riskReductionPct.
C13_HedgedBlocksFollowForwardRate ==
  pc = "responded" =>
    /\ (req.hasBody /\ ~FailsACheck(req)) => resp.status = 200
    /\ resp.status = 200 =>
         /\ IsSummary(resp.body.unhedged)
         /\ IsUndef(req.forwardRate) =>
              /\ resp.body.hedged = Null
              /\ resp.body.selected = Null
              /\ resp.body.fullyHedged = Null
              /\ resp.body.forwardRate = Null
              /\ resp.body.unhedged = hres.unhedged
              /\ Len(calls) = 1
              /\ calls[1].fn = "simulateCFaR"
         /\ ~IsUndef(req.forwardRate) =>
              /\ Len(calls) = 3
              /\ calls[2].fn = "simulateHedgedCFaR"
              /\ calls[2].hedgeRatio = RequestedRatio(req)
              /\ calls[3].fn = "simulateHedgedCFaR"
              /\ calls[3].hedgeRatio = One
              /\ hres.pack.hedgeRatio = RequestedRatio(req)
              /\ hres.pack100.hedgeRatio = One
              /\ IsSummary(resp.body.selected)
              /\ resp.body.selected = hres.pack.hedged
              /\ IsSummary(resp.body.fullyHedged)
              /\ resp.body.fullyHedged = hres.pack100.hedged
              /\ resp.body.unhedged = hres.pack.unhedged
              /\ resp.body.hedged # Null
              /\ resp.body.hedged.cfar = hres.pack.hedged.cfar
              /\ resp.body.hedged.riskReductionPct = hres.pack.riskReductionPct
              /\ IsNum(resp.body.hedged.riskReductionPct)
              /\ resp.body.hedgeRatio = RequestedRatio(req)
              /\ resp.body.forwardRate = req.forwardRate

\* A request with a forwardRate and no hedgeRatio has been answered: the
\* selected summary is that of ratio 0 and differs from the fully hedged one.
C13_DefaultRatioAnswered ==
  /\ pc = "responded"
  /\ resp.status = 200
  /\ ~IsUndef(req.forwardRate)
  /\ IsUndef(req.hedgeRatio)
  /\ AllFinite(req.exposures.items)
  /\ resp.body.selected # resp.body.fullyHedged
  /\ RLt(Zero, resp.body.unhedged.cfar)

(* -------- simulateFXPaths invoked twice on the same random draws ------- *)

\* The rate the previous invocation's paths ended at.
EntryRateKept(p) == spots[Len(spots)][p.months + 1]

\* let rate = spot; path[0] = rate (lines 147-148), the locals of a trial.
EntryRate(p) == p.spot

\* simulateFXPaths is entered; calls logs the indices randomIndex returns.
ReplayInit ==
  /\ pc = "first"
  /\ fn = "simulateFXPaths"
  /\ \E sp \in SimParams :
       /\ params = [spot |-> sp.spot, monthlyReturns |-> sp.monthlyReturns,
                    sims |-> sp.sims, months |-> sp.months,
                    clampLower |-> sp.clamp[1], clampUpper |-> sp.clamp[2]]
       /\ rate = sp.spot
       /\ path = <<sp.spot>>
  /\ calls = <<[fn |-> "simulateFXPaths", draws |-> <<>>]>>
  /\ k = 0
  /\ spots = <<>>
  /\ hp = None
  /\ t = 0
  /\ totalUnhedged = Zero
  /\ totalHedged = Zero
  /\ hedgeBook = <<>>
  /\ unhedgedOutcomes = <<>>
  /\ hedgedOutcomes = <<>>
  /\ result = None
  /\ outcomes = <<>>
  /\ summary = None
  /\ rev = "none"
  /\ req = None
  /\ hres = None
  /\ resp = None

\* An iteration of the first invocation: randomIndex returns any index.
FirstRunStep ==
  /\ pc = "first"
  /\ \E i \in RandomIndices(Len(params.monthlyReturns)) :
       /\ FXIteration(params.monthlyReturns[i + 1], "first", "firstDone")
       /\ calls' = <<[fn |-> "simulateFXPaths",
                      draws |-> Append(calls[1].draws, i)]>>
  /\ UNCHANGED <<fn, params, hp, t, totalUnhedged, totalHedged, hedgeBook,
                 unhedgedOutcomes, hedgedOutcomes, result, outcomes, summary,
                 rev, req, hres, resp>>

\* The first invocation has returned { spots }; the function is invoked
\* again with the same parameters and allocates its locals (lines 143-148).
Reinvoke ==
  /\ pc = "firstDone"
  /\ result' = [spots |-> spots]
  /\ spots' = <<>>
  /\ k' = 0
  /\ rate' = EntryRate(params)
  /\ path' = <<EntryRate(params)>>
  /\ calls' = Append(calls, [fn |-> "simulateFXPaths", draws |-> <<>>])
  /\ pc' = "second"
  /\ UNCHANGED <<fn, params, hp, t, totalUnhedged, totalHedged, hedgeBook,
                 unhedgedOutcomes, hedgedOutcomes, outcomes, summary,
                 rev, req, hres, resp>>

\* An iteration of the second invocation: randomIndex returns what it
\* returned at the same position of the first.
SecondRunStep ==
  /\ pc = "second"
  /\ LET i == calls[1].draws[Len(calls[2].draws) + 1]
     IN  /\ FXIteration(params.monthlyReturns[i + 1], "second", "secondDone")
         /\ calls' = <<calls[1], [fn |-> "simulateFXPaths",
                                  draws |-> Append(calls[2].draws, i)]>>
  /\ UNCHANGED <<fn, params, hp, t, totalUnhedged, totalHedged, hedgeBook,
                 unhedgedOutcomes, hedgedOutcomes, result, outcomes, summary,
                 rev, req, hres, resp>>

ReplayNext == FirstRunStep \/ Reinvoke \/ SecondRunStep

SpecReplay == ReplayInit /\ [][ReplayNext]_vars

IsPathSetOf(set, p) ==
  /\ Len(set) = p.sims
  /\ \A i \in 1..Len(set) : Len(set[i]) = p.months + 1 /\ set[i][1] = p.spot

Hedging == fn = "applyHedgingToPaths" /\ pc = "hedge"

MinInt(a, b) == IF a < b THEN a ELSE b

MaxInt(a, b) == IF a > b THEN a ELSE b

\* The contract the claim expects to be opened at month o of the path.
ContractOpenedAt(o, fxPath) ==
  [settleMonth |-> o + HedgeTenor(hp),
   forwardRate |-> RMul(fxPath[o + 1], ForwardFactor(hp, spots)),
   notional |-> RMul(hp.exposures[o + HedgeTenor(hp) + 1], hp.hedgeRatio)]

\* The contracts opened before month m that settle at month m or later, in
\* the order of their opening.
OpenContractsAt(m, fxPath) ==
  LET lo == MaxInt(0, m - HedgeTenor(hp))
      hi == MinInt(m - 1, Len(hp.exposures) - 1 - HedgeTenor(hp))
  IN  [i \in 1..MaxInt(0, hi - lo + 1) |-> ContractOpenedAt(lo + i - 1, fxPath)]

\* What months 0..m-1 add to the hedged total if the contract for month s,
\* opened at s - tenor >= 0, pays once, at s: notional * locked rate, plus
\* the floating part of every month.
RECURSIVE SettledOnceTotal(_, _)
SettledOnceTotal(m, fxPath) ==
  IF m = 0 THEN Zero
  ELSE LET s == m - 1
           o == s - HedgeTenor(hp)
           paid == IF o >= 0
                   THEN LET c == ContractOpenedAt(o, fxPath)
                        IN  RMul(c.notional, c.forwardRate)
                   ELSE Zero
       IN  RAdd(SettledOnceTotal(m - 1, fxPath),
                RAdd(paid, FloatingCashflow(hp.exposures[s + 1], hp.hedgeRatio,
                                            fxPath[s + 2])))

\* C15: in applyHedgingToPaths, on every path and for every tenor, the hedge
\* book is empty at month 0 and when the month loop ends, and in between holds
\* exactly the contracts opened so far whose settleMonth is still to come:
\* each contract opened is settled once, in the iteration t = settleMonth,
\* and removed in that step.
C15_ContractsSettleOnceAndLeave ==
  Hedging =>
    /\ t = 0 => hedgeBook = <<>>
    /\ t = Len(hp.exposures) => hedgeBook = <<>>
    /\ hedgeBook = OpenContractsAt(t, spots[k + 1])
    /\ \A i \in 1..Len(hedgeBook) :
         hedgeBook[i].settleMonth \in t..(Len(hp.exposures) - 1)
    /\ totalHedged = SettledOnceTotal(t, spots[k + 1])

\* On a path of three months hedged in full with tenor 1, the contract opened
\* at month 0 has paid at month 1 and the one opened at month 1 is in the book.
C15_ContractSettledAnotherOpen ==
  /\ Hedging
  /\ hp.hedgeTenorMonths = 1
  /\ hp.hedgeRatio = One
  /\ Len(hp.exposures) = 3
  /\ t = 2
  /\ Len(hedgeBook) = 1
  /\ hedgeBook[1].settleMonth = 2
  /\ RLt(Zero, hedgeBook[1].notional)
  /\ RLt(Zero, totalHedged)

(* ------------------ claims on tenors beyond the horizon ----------------- *)

\* hedgeTenorMonths is absent (and defaults to exposures.length) or is given
\* and at least the number of months.
TenorBeyondHorizon ==
  /\ fn = "applyHedgingToPaths"
  /\ \/ hp.hedgeTenorMonths = NoTenor
     \/ hp.hedgeTenorMonths >= Len(hp.exposures)

\* sum over the months before m of exposures[t] * (1 - hedgeRatio) * path[t+1]
RECURSIVE FloatingOnlySum(_, _)
FloatingOnlySum(m, fxPath) ==
  IF m = 0 THEN Zero
  ELSE RAdd(FloatingOnlySum(m - 1, fxPath),
            RMul(RMul(hp.exposures[m], RSub(One, hp.hedgeRatio)),
                 fxPath[m + 1]))

\* C16: with hedgeTenorMonths >= months, the default included, no iteration
\* of any path opens a contract, the hedge book is empty throughout, and each
\* hedged total is the floating-only sum over t of
\* exposures[t] * (1 - hedgeRatio) * path[t + 1].
C16_NoContractBeyondHorizon ==
  TenorBeyondHorizon =>
    /\ hedgeBook = <<>>
    /\ (pc = "hedge" /\ t < Len(hp.exposures)) =>
         OpenedBook(hedgeBook, hp, spots[k + 1], t, ForwardFactor(hp, spots))
           = <<>>
    /\ pc = "hedge" => totalHedged = FloatingOnlySum(t, spots[k + 1])
    /\ \A i \in 1..Len(hedgedOutcomes) :
         hedgedOutcomes[i] = FloatingOnlySum(Len(hp.exposures), spots[i])

\* Two paths of two months were hedged by half with a tenor of two months at
\* a forward rate off the spot: the hedged outcomes are non-zero, differ from
\* each other and from the unhedged ones.
C16_TenorEqualsMonthsHedged ==
  /\ pc = "done"
  /\ fn = "applyHedgingToPaths"
  /\ hp.hedgeTenorMonths = 2
  /\ Len(hp.exposures) = 2
  /\ hp.hedgeRatio = R(1, 2)
  /\ hp.forwardRate # params.spot
  /\ Len(hedgedOutcomes) = 2
  /\ hedgedOutcomes[1] # hedgedOutcomes[2]
  /\ RLt(Zero, hedgedOutcomes[1])
  /\ hedgedOutcomes[1] # unhedgedOutcomes[1]

(* ------------- summarisation of an outcome set in two orders ----------- *)

PlainValues == {R(-100, 1), Zero, R(100, 1), R(105, 1), R(231, 2)}

\* 2^27, -2^27 and 3 * 2^-30: a sum of the three depends on which two are
\* added first.
CancellingOutcomes ==
  <<R(LargeFrom, 1), R(-LargeFrom, 1), R(3, 4 * SmallBelow)>>

\* The bijections of 1..n.
Orders(n) ==
  {f \in [1..n -> 1..n] : \A i, j \in 1..n : i # j => f[i] # f[j]}

InOrder(arr, f) == [i \in 1..Len(arr) |-> arr[f[i]]]

\* The trials' outcomes, as an array in one order and in another: any short
\* array of plain values, or the three cancelling values.
PermuteInit ==
  /\ pc = "summarize"
  /\ \/ \E n \in 1..MaxShort : outcomes \in [1..n -> PlainValues]
     \/ \E f \in Orders(3) : outcomes = InOrder(CancellingOutcomes, f)
  /\ summary = None
  /\ fn = "none"
  /\ params = None
  /\ k = 0
  /\ rate = Undef
  /\ path = <<>>
  /\ spots = <<>>
  /\ hp = None
  /\ t = 0
  /\ totalUnhedged = Zero
  /\ totalHedged = Zero
  /\ hedgeBook = <<>>
  /\ \E f \in Orders(Len(outcomes)) : unhedgedOutcomes = InOrder(outcomes, f)
  /\ hedgedOutcomes = <<>>
  /\ result = None
  /\ HandlerIdle

\* summarize applied to the same outcomes in the other order.
SummarizeReordered ==
  /\ pc = "summarized"
  /\ unhedgedOutcomes # <<>>
  /\ result' = summarize(unhedgedOutcomes, Len(unhedgedOutcomes), 1)
  /\ pc' = "bothSummarized"
  /\ UNCHANGED <<fn, params, k, rate, path, spots, hp, t, totalUnhedged,
                 totalHedged, hedgeBook, unhedgedOutcomes, hedgedOutcomes,
                 outcomes, summary, handlerVars>>

PermuteNext == Summarize \/ SummarizeReordered

SpecPermute == PermuteInit /\ [][PermuteNext]_vars

\* C17 (as stated): the summary of an outcome set, mean, p5, cfar and the
\* histogram's min, max and counts, is the same for every order of the
\* outcomes.
C17_SummaryIgnoresOrder ==
  pc = "bothSummarized" => result = summary

\* No addition of the running sum of arr rounds its exact result.
RunningSumIsExact(arr) ==
  \A i \in 1..Len(arr) :
    LET s == SumFrom(Zero, arr, 1, i - 1)
    IN  ~AddAbsorbs(s, arr[i]) /\ ~AddAbsorbs(arr[i], s)

\* C17 (amended): p5 and the histogram's min, max and counts are the same
\* for every order of the outcomes; mean and cfar, taken from a running sum
\* in array order, are the same whenever that sum is exact in both orders.
C17_RankAndHistogramIgnoreOrder ==
  pc = "bothSummarized" =>
    /\ result.p5 = summary.p5
    /\ result.hist = summary.hist
    /\ result.sims = summary.sims
    /\ (RunningSumIsExact(outcomes) /\ RunningSumIsExact(unhedgedOutcomes)) =>
         /\ result.mean = summary.mean
         /\ result.cfar = summary.cfar

\* Three different outcomes were summarised in ascending and in another
\* order: p5 is the smallest, below the mean, and three bins are filled.
C17_ReorderedSetSummarised ==
  /\ pc = "bothSummarized"
  /\ Len(outcomes) = 3
  /\ outcomes # unhedgedOutcomes
  /\ RLt(outcomes[1], outcomes[2])
  /\ RLt(outcomes[2], outcomes[3])
  /\ summary.p5 = outcomes[1]
  /\ RLt(summary.p5, summary.mean)
  /\ Cardinality({b \in 1..Bins : summary.hist.counts[b] > 0}) = 3

(* --------------- claims on the hedge that opens no contract ------------- *)

Unhedged(ratio, x) == RMul(RSub(One, ratio), x)

CFaRCashflowNextMonth(exposures, m, x) ==
  RMul(exposures[((m + 1) % Len(exposures)) + 1], x)

\* exposures[t] * rate (line 106), t 0-based.
CFaRCashflow(exposures, m, x) == RMul(exposures[m + 1], x)

\* simulateCFaR is entered with its parameters, exposures included.
CFaRInit ==
  /\ pc = "cfar"
  /\ fn = "simulateCFaR"
  /\ \E sp \in SimParams : \E e \in ExposureSchedules(sp.months) :
       /\ params = [spot |-> sp.spot, monthlyReturns |-> sp.monthlyReturns,
                    sims |-> sp.sims, months |-> sp.months,
                    clampLower |-> sp.clamp[1], clampUpper |-> sp.clamp[2],
                    exposures |-> e]
       /\ rate = sp.spot
  /\ calls = <<[fn |-> "simulateCFaR", draws |-> <<>>]>>
  /\ k = 0
  /\ t = 0
  /\ totalUnhedged = Zero
  /\ outcomes = <<>>
  /\ summary = None
  /\ path = <<>>
  /\ spots = <<>>
  /\ hp = None
  /\ totalHedged = Zero
  /\ hedgeBook = <<>>
  /\ unhedgedOutcomes = <<>>
  /\ hedgedOutcomes = <<>>
  /\ result = None
  /\ rev = "none"
  /\ req = None
  /\ hres = None
  /\ resp = None

\* One iteration of simulateCFaR's month loop (lines 99-107; its local total
\* is held in totalUnhedged); the last one of a trial stores the total and
\* starts the next trial (lines 96-97, 109).
CFaRStep ==
  /\ pc = "cfar"
  /\ \E i \in RandomIndices(Len(params.monthlyReturns)) :
       LET nr == NextRate(rate, params.monthlyReturns[i + 1],
                          params.clampLower, params.clampUpper)
           total == RAdd(totalUnhedged, CFaRCashflow(params.exposures, t, nr))
       IN  /\ calls' = <<[fn |-> "simulateCFaR",
                          draws |-> Append(calls[1].draws, i)]>>
           /\ IF t + 1 = params.months
              THEN /\ outcomes' = Append(outcomes, total)
                   /\ k' = k + 1
                   /\ t' = 0
                   /\ rate' = params.spot
                   /\ totalUnhedged' = Zero
                   /\ pc' = IF k + 1 = params.sims THEN "cfarTrialsDone"
                            ELSE "cfar"
              ELSE /\ rate' = nr
                   /\ t' = t + 1
                   /\ totalUnhedged' = total
                   /\ UNCHANGED <<outcomes, k, pc>>
  /\ UNCHANGED <<fn, params, path, spots, hp, totalHedged, hedgeBook,
                 unhedgedOutcomes, hedgedOutcomes, result, summary,
                 rev, req, hres, resp>>

\* Lines 112-123: simulateCFaR summarises its outcomes and returns.
CFaRReturn ==
  /\ pc = "cfarTrialsDone"
  /\ summary' = summarize(outcomes, params.sims, params.months)
  /\ pc' = "cfarDone"
  /\ UNCHANGED <<outcomes, engineVars, handlerVars>>

\* simulateFXPaths is entered with the same parameters (lines 143-148).
InvokeFXPaths ==
  /\ pc = "cfarDone"
  /\ fn' = "simulateFXPaths"
  /\ k' = 0
  /\ spots' = <<>>
  /\ rate' = EntryRate(params)
  /\ path' = <<EntryRate(params)>>
  /\ calls' = Append(calls, [fn |-> "simulateFXPaths", draws |-> <<>>])
  /\ pc' = "tapePaths"
  /\ UNCHANGED <<params, hp, t, totalUnhedged, totalHedged, hedgeBook,
                 unhedgedOutcomes, hedgedOutcomes, result, outcomes, summary,
                 rev, req, hres, resp>>

\* An iteration of simulateFXPaths: randomIndex returns what it returned at
\* the same position of the simulateCFaR run.
TapePathsStep ==
  /\ pc = "tapePaths"
  /\ LET i == calls[1].draws[Len(calls[2].draws) + 1]
     IN  /\ FXIteration(params.monthlyReturns[i + 1], "tapePaths",
                        "tapePathsDone")
         /\ calls' = <<calls[1], [fn |-> "simulateFXPaths",
                                  draws |-> Append(calls[2].draws, i)]>>
  /\ UNCHANGED <<fn, params, hp, t, totalUnhedged, totalHedged, hedgeBook,
                 unhedgedOutcomes, hedgedOutcomes, result, outcomes, summary,
                 rev, req, hres, resp>>

\* applyHedgingToPaths is called on the path set with the exposures
\* simulateCFaR was given and any hedge.
ApplyHedgingSame ==
  /\ pc = "tapePathsDone"
  /\ \E hr \in HedgeRatios, fwd \in ForwardRates, tenor \in Tenors :
       hp' = [exposures |-> params.exposures, hedgeRatio |-> hr,
              forwardRate |-> fwd, hedgeTenorMonths |-> tenor]
  /\ fn' = "applyHedgingToPaths"
  /\ pc' = "hedge"
  /\ k' = 0
  /\ t' = 0
  /\ totalUnhedged' = Zero
  /\ totalHedged' = Zero
  /\ hedgeBook' = <<>>
  /\ unhedgedOutcomes' = <<>>
  /\ hedgedOutcomes' = <<>>
  /\ UNCHANGED <<params, rate, path, spots, result, outcomes, summary,
                 handlerVars>>

BothEnginesNext ==
  CFaRStep \/ CFaRReturn \/ InvokeFXPaths \/ TapePathsStep
  \/ ApplyHedgingSame \/ HedgeMonth \/ EndTrial \/ ReturnHedged

SpecBothEngines == CFaRInit /\ [][BothEnginesNext]_vars

\* C19: on the same spot, returns, clamps, exposures, sims and drawn
\* indices, every trial's unhedged outcome of simulateFXPaths followed by
\* applyHedgingToPaths equals simulateCFaR's outcome of that trial, whatever
\* hedgeRatio, forwardRate and hedgeTenorMonths; each of simulateCFaR and
\* simulateFXPaths draws once per month of each trial, trial after trial,
\* sims * months times in all.
C19_UnhedgedOutcomesAgree ==
  /\ pc = "cfar" => Len(calls[1].draws) = k * params.months + t
  /\ pc \in {"cfarTrialsDone", "cfarDone"} =>
       /\ Len(calls[1].draws) = params.sims * params.months
       /\ Len(outcomes) = params.sims
  /\ pc = "tapePaths" =>
       Len(calls[2].draws) = k * params.months + Len(path) - 1
  /\ pc \in {"tapePathsDone", "hedge", "hedged", "done"} =>
       /\ calls[2].draws = calls[1].draws
       /\ Len(calls[2].draws) = params.sims * params.months
  /\ pc \in {"hedge", "hedged", "done"} =>
       \A i \in 1..Len(unhedgedOutcomes) : unhedgedOutcomes[i] = outcomes[i]
  /\ pc \in {"hedged", "done"} => unhedgedOutcomes = outcomes
  /\ pc = "done" => result.unhedged = summary

\* Both engines have run two trials of three months with a clamp on
\* exposures that differ by month; the two unhedged outcomes differ, and the
\* hedge, at a tenor of one month, changed the hedged ones.
C19_BothEnginesRan ==
  /\ pc = "done"
  /\ params.sims = 2
  /\ params.months = 3
  /\ Supplied(params.clampUpper)
  /\ params.exposures[1] # params.exposures[3]
  /\ outcomes[1] # outcomes[2]
  /\ hp.hedgeTenorMonths = 1
  /\ hp.hedgeRatio = One
  /\ hedgedOutcomes # unhedgedOutcomes

====
